---- MODULE Spec2Model ----
(***************************************************************************)
(* Model of src/data_gen.py: DataGeneration.generate_flow_record (a pair   *)
(* of flow records for one conversation), DataGeneration.generate_data     *)
(* (the per-millisecond scheduler with its future-flow buffer, and the      *)
(* per-second device sampling pass), DataGeneration.to_bytes, and the      *)
(* set-up calls get_asns (its cleaning pass), random_asns,                *)
(* make_route_table and build_server_ip_table.                             *)
(*                                                                         *)
(* The specifications share the variables:                                 *)
(*   Spec      generate_data as a state machine: one step per iteration of *)
(*             the millisecond loop, one per sampling segment.             *)
(*   SpecLive  Spec with weak fairness of its next-step relation.          *)
(*   SpecFail  Spec on an output device whose open, write, flush and close *)
(*             calls can fail.                                             *)
(*   SpecPair  generate_flow_record as a pure function of its time index   *)
(*             and of the values its random draws return, and to_bytes of  *)
(*             the records it returns.                                     *)
(*   SpecAsns  random_asns, one step per route selected, and               *)
(*             make_route_table.                                           *)
(*   SpecPool  build_server_ip_table, one step per address appended.       *)
(*   SpecClean get_asns from the load of the TSV file, one step per        *)
(*             iteration of its cleaning loop.                             *)
(***************************************************************************)
EXTENDS Integers, Sequences, FiniteSets, TLC

(***************************************************************************)
(* Bounds of the model.                                                    *)
(***************************************************************************)
\* Iterations of the `for _ in range(1000)` loop of one window, and the
\* factor of fps = flows_per_ms * 1000; the code's 1000 is scaled down.
MS_PER_SECOND == 3
\* flows_to_make is 0, 1, or at most MS_PER_SECOND short of the flows that
\* MaxRunMs milliseconds make at flows_per_ms flows a millisecond
MaxRunMs == 24
\* flows_per_ms ranges over 1..MaxFlowsPerMs
MaxFlowsPerMs == 2
\* sampling_rate ranges over 1..MaxSamplingRate
MaxSamplingRate == 4
\* the values returned by the jitter draw repeat with this period
JitterPeriod == 2
\* the asn_table given to random_asns has at most MaxAsnRows rows, and
\* asns_to_select is at most one more
MaxAsnRows == 2
\* the TSV file get_asns loads has at most MaxTsvRows rows
MaxTsvRows == 3

(***************************************************************************)
(* Program constants (class attributes of DataGeneration).                 *)
(***************************************************************************)
INTERNAL_ASN == 65000
INTERNAL_SUBNET == 24
INTERNAL_IFINDEX == [ifindex |-> 100, next_hop_i |-> 167837954]
MAX_JITTER == 6
MAX_LIGHT_PACKET_BYTES == 4000000
MIN_LIGHT_PACKET_BYTES == 2000000
MAX_HEAVY_PACKET_BYTES == 20000000
MIN_HEAVY_PACKET_BYTES == 4000000
SERVER_AS_SOURCE_WEIGHT == 85
SERVER_LATENCY == 15
SERVER_PORT == <<443, 80, 22>>
EPHEMERAL_PORTS == <<49152, 65535>>
\* time_index_ms: int = 60000
START_TIME_MS == 60000
\* client_transfer // 1200
PACKET_BYTES == 1200
\* randint(1, 60000)
MAX_FLOW_AGE_MS == 60000
RECORD_LEN == 75
\* if e.errno == 12
ENOMEM == 12

(***************************************************************************)
(* random.randint(a, b) draws from a..b, random.randrange(a, b) from       *)
(* a..b-1: the sets of values a draw can return.                           *)
(***************************************************************************)
randint(a, b) == a..b

randrange(a, b) == a..(b - 1)

\* 2 ** n
RECURSIVE Pow2(_)
Pow2(n) == IF n = 0 THEN 1 ELSE 2 * Pow2(n - 1)

(***************************************************************************)
(* State.                                                                  *)
(***************************************************************************)
VARIABLES
    pc,                       \* position in generate_data / in the pair call
    flows_to_make,            \* parameter of generate_data
    flows_per_ms,             \* parameter of generate_data
    sampling_rate,            \* parameter of generate_data
    jitter_seq,               \* the values the jitter draw returns, in order
    calls,                    \* generate_flow_record calls made so far
    flow_buffer,              \* future timestamp -> list of flow records
    time_index_ms,            \* the clock
    total_flows_made,
    total_sampled_flows_made,
    raw_flows,                \* the one-second buffer
    ms_iter,                  \* iterations done of `for _ in range(1000)`
    seg_iter,                 \* iterations done of `for _ in range(segments)`
    start_index,
    end_index,
    drawn,                    \* the value randint(start_index, end_index) returned
    random_flow,              \* the index raw_flows was read at
    csv_raw_file,             \* rows written to raw_flow.csv
    window_sampled,           \* rows written to sampled_flow.csv in this pass
    progress,                 \* sum of the advances given to job_progress
    exc,                      \* exception that ended generate_data
    ret,                      \* value returned by generate_data
    time_index,               \* argument of generate_flow_record (SpecPair)
    pair,                     \* value returned by generate_flow_record (SpecPair)
    write_errno,              \* errno of the OSError a write raised, 0 if none
    system_id,                \* self.system_id, a string of hex digits
    record_arg,               \* argument of to_bytes
    record_bytes,             \* value returned by to_bytes
    asn_table,                \* argument of random_asns, a list of rows
    asn_table_in,             \* asn_table as the caller passed it
    asns_to_select,           \* argument of random_asns
    new_table,                \* the dict random_asns builds and returns, and
                              \* make_route_table updates in place
    selected_rows,            \* the rows random_asns has picked, in order
    from_ip,                  \* argument of build_server_ip_table
    to_ip,                    \* argument of build_server_ip_table
    server_ip_table,          \* value returned by build_server_ip_table
    raw_file,                 \* the local csv_raw_file: "unbound", or the
                              \* file it is bound to "open" or "closed"
    sampled_file,             \* the local csv_sampled_file, likewise
    flows_bound,              \* the local flows of generate_data is bound
    failure,                  \* the exception that made control leave the
                              \* try statement of generate_data, if one did
    tsv_file,                 \* the rows get_asns loads from the TSV file
    ip2asn,                   \* the list get_asns cleans in place and returns
    index,                    \* the index of the cleaning loop of get_asns
    dropped                   \* the rows the cleaning loop has dropped

bytes_vars == <<record_arg, record_bytes>>

driver_vars == <<asn_table, asn_table_in, asns_to_select, new_table,
                 selected_rows, from_ip, to_ip, server_ip_table>>

file_vars == <<raw_file, sampled_file, flows_bound, failure>>

clean_vars == <<tsv_file, ip2asn, index, dropped>>

vars == <<pc, flows_to_make, flows_per_ms, sampling_rate, jitter_seq, calls,
          flow_buffer, time_index_ms, total_flows_made,
          total_sampled_flows_made, raw_flows, ms_iter, seg_iter, start_index,
          end_index, drawn, random_flow, csv_raw_file, window_sampled,
          progress, exc, ret, time_index, pair, write_errno, system_id,
          bytes_vars, driver_vars, file_vars, clean_vars>>

(***************************************************************************)
(* self.route_table and self.server_list: a route table of two routes and  *)
(* a pool of two servers, as make_route_table and build_server_ip_table    *)
(* leave them.                                                             *)
(***************************************************************************)
route_table ==
    [asn \in {13335, 15169} |->
        IF asn = 13335
        THEN [subnet_bits |-> 24, network_address |-> 16777216,
              broadcast_address |-> 16777471, next_hop |-> 167774722,
              ip_range_start |-> 16777218, ip_range_end |-> 16777470,
              asn |-> 13335, ifindex |-> 14]
        ELSE [subnet_bits |-> 24, network_address |-> 134744064,
              broadcast_address |-> 134744319, next_hop |-> 167772162,
              ip_range_start |-> 134744066, ip_range_end |-> 134744318,
              asn |-> 15169, ifindex |-> 14]]

server_list == <<168430090, 168430091>>

\* The least and the greatest value randint(a, b) and randrange(a, b) can
\* return: the wide draws of the pair specification are taken at these ends.
randint_ends(a, b) == {a, b}

randrange_ends(a, b) == {a, b - 1}

(***************************************************************************)
(* random_client: one route of the table, one address of its range.        *)
(***************************************************************************)
random_client ==
    UNION { { <<ip, route_table[a].next_hop, route_table[a].subnet_bits,
                route_table[a].asn, route_table[a].ifindex>> :
              ip \in randrange_ends(route_table[a].ip_range_start,
                                    route_table[a].ip_range_end) } :
            a \in DOMAIN route_table }

\* random_server: one address of the pool.
random_server == { server_list[i] : i \in DOMAIN server_list }

(***************************************************************************)
(* The values the random draws of one generate_flow_record call return,    *)
(* in the order the code draws them.  Draws is the set the pair            *)
(* specification explores: the ends of the wide ranges (for the side, the  *)
(* ends and the two values around the weight), all of the jitter and of    *)
(* the server port.                                                        *)
(***************************************************************************)
JitterDraws == randrange(0, MAX_JITTER)

\* randrange(0, 100): the draw that picks the heavy side
SideDraws == randrange(0, 100)

Draws ==
    [client : random_client,
     server : random_server,
     heavy_transfer_size :
         randint_ends(MIN_HEAVY_PACKET_BYTES, MAX_HEAVY_PACKET_BYTES),
     light_transfer_size :
         randint_ends(MIN_LIGHT_PACKET_BYTES, MAX_LIGHT_PACKET_BYTES),
     side : randrange_ends(0, 100)
                \cup {SERVER_AS_SOURCE_WEIGHT, SERVER_AS_SOURCE_WEIGHT + 1},
     client_port : randint_ends(EPHEMERAL_PORTS[1], EPHEMERAL_PORTS[2]),
     client_age : randint_ends(1, MAX_FLOW_AGE_MS),
     server_age : randint_ends(1, MAX_FLOW_AGE_MS),
     server_port_index : randint(0, 2),
     jitter : JitterDraws]

(***************************************************************************)
(* __init__: self.system_id is system_id.hex() when the caller gives a     *)
(* non-empty system_id, else "{:<32}".format(uuid.uuid4().hex).  A byte    *)
(* string is the sequence of its bytes (0..255), a string of hex digits    *)
(* the sequence of the values of its digits (0..15).                       *)
(***************************************************************************)
\* bytes.hex(): two digits a byte, the high one first
hex(b) ==
    [i \in 1..(2 * Len(b)) |->
        IF i % 2 = 1 THEN b[(i + 1) \div 2] \div 16 ELSE b[i \div 2] % 16]

\* bytes.fromhex(h), for h of an even number of digits
fromhex(h) == [i \in 1..(Len(h) \div 2) |-> 16 * h[2 * i - 1] + h[2 * i]]

\* uuid.uuid4().hex: 32 hex digits; "{:<32}".format pads a shorter string
\* with spaces on the right and leaves one of 32 characters as it is
uuid4_hex == { [i \in 1..32 |-> (7 * i) % 16] }

\* the system_id arguments of the constructor: none (the driver's call), or
\* an identifier of 32 bytes
SystemIdArgs == { <<>>, [i \in 1..32 |-> 8 * i - 1] }

init_system_id(arg, u) == IF arg # <<>> THEN hex(arg) ELSE u

SystemIds == { init_system_id(arg, u) : arg \in SystemIdArgs, u \in uuid4_hex }

(***************************************************************************)
(* generate_flow_record(time_index): the client record and the server      *)
(* record of one conversation, d being the values its draws returned.      *)
(***************************************************************************)
\* if randrange(0, 100) > self.SERVER_AS_SOURCE_WEIGHT: the client is heavy
client_transfer(d) ==
    IF d.side > SERVER_AS_SOURCE_WEIGHT THEN d.heavy_transfer_size
                                        ELSE d.light_transfer_size

server_transfer(d) ==
    IF d.side > SERVER_AS_SOURCE_WEIGHT THEN d.light_transfer_size
                                        ELSE d.heavy_transfer_size

\* self.SERVER_PORT[randint(0,2)]
server_port(d) == SERVER_PORT[d.server_port_index + 1]

\* A server time that adds the latency twice.
server_time_latency_twice(t, d) ==
    t + SERVER_LATENCY + SERVER_LATENCY + d.jitter

\* A server time that leaves the latency out.
server_time_no_latency(t, d) == t + d.jitter

\* time_index + self.SERVER_LATENCY + randrange(0, self.MAX_JITTER)
server_time(t, d) == t + SERVER_LATENCY + d.jitter

client_flow(t, d) ==
    [timestamp |-> t,
     system_id |-> system_id,
     srcaddr |-> d.client[1],
     dstaddr |-> d.server,
     nexthop |-> INTERNAL_IFINDEX.next_hop_i,
     dPkts |-> client_transfer(d) \div PACKET_BYTES,
     dOctets |-> client_transfer(d),
     first |-> t - d.client_age,
     last |-> t,
     srcport |-> d.client_port,
     dstport |-> server_port(d),
     tcp_flags |-> 0,
     protocol |-> 6,
     tos |-> 0,
     src_as |-> d.client[4],
     dst_as |-> INTERNAL_ASN,
     src_mask |-> d.client[3],
     dst_mask |-> INTERNAL_SUBNET,
     input |-> d.client[5],
     output |-> INTERNAL_IFINDEX.ifindex]

\* A server record made as a copy of the client record in which the ports
\* are left as the client record has them.
server_flow_ports_kept(t, d) ==
    [client_flow(t, d) EXCEPT
        !.timestamp = server_time(t, d),
        !.srcaddr = d.server,
        !.dstaddr = d.client[1],
        !.nexthop = d.client[2],
        !.dPkts = server_transfer(d) \div PACKET_BYTES,
        !.dOctets = server_transfer(d),
        !.first = t - d.server_age,
        !.src_as = INTERNAL_ASN,
        !.dst_as = d.client[4],
        !.src_mask = INTERNAL_SUBNET,
        !.dst_mask = d.client[3],
        !.input = INTERNAL_IFINDEX.ifindex,
        !.output = d.client[5]]

server_flow(t, d) ==
    [timestamp |-> server_time(t, d),
     system_id |-> system_id,
     srcaddr |-> d.server,
     dstaddr |-> d.client[1],
     nexthop |-> d.client[2],
     dPkts |-> server_transfer(d) \div PACKET_BYTES,
     dOctets |-> server_transfer(d),
     first |-> t - d.server_age,
     last |-> t,
     srcport |-> server_port(d),
     dstport |-> d.client_port,
     tcp_flags |-> 0,
     protocol |-> 6,
     tos |-> 0,
     src_as |-> INTERNAL_ASN,
     dst_as |-> d.client[4],
     src_mask |-> INTERNAL_SUBNET,
     dst_mask |-> d.client[3],
     input |-> INTERNAL_IFINDEX.ifindex,
     output |-> d.client[5]]

generate_flow_record(t, d) == <<client_flow(t, d), server_flow(t, d)>>

(***************************************************************************)
(* generate_data: locals computed before the loop.                         *)
(***************************************************************************)
fps == flows_per_ms * MS_PER_SECOND

fps_after_sampling ==
    IF fps \div sampling_rate > 0 THEN fps \div sampling_rate ELSE 1

\* One segment per record to keep, instead of fps // fps_after_sampling.
segments_per_kept == fps_after_sampling

segments == fps \div fps_after_sampling

(***************************************************************************)
(* The draws of the n-th generate_flow_record call of a generate_data run: *)
(* the jitter is the next value of jitter_seq, the two ages are the        *)
(* greatest value of their draw in an odd call and the least in an even    *)
(* call, the other draws are fixed.  jitter_seq takes its values among the *)
(* two least and the greatest value the jitter draw can return.            *)
(***************************************************************************)
RunJitterDraws ==
    {j \in JitterDraws : j <= 1 \/ (\A k \in JitterDraws : k <= j)}

RunDraw(n) ==
    [client |-> <<16777218, 167774722, 24, 13335, 14>>,
     server |-> 168430090,
     heavy_transfer_size |-> MIN_HEAVY_PACKET_BYTES,
     light_transfer_size |-> MIN_LIGHT_PACKET_BYTES,
     side |-> 0,
     client_port |-> EPHEMERAL_PORTS[1],
     client_age |-> IF n % 2 = 1 THEN MAX_FLOW_AGE_MS ELSE 1,
     server_age |-> IF n % 2 = 1 THEN MAX_FLOW_AGE_MS ELSE 1,
     server_port_index |-> 0,
     jitter |-> jitter_seq[(n % JitterPeriod) + 1]]

(***************************************************************************)
(* A flow record held by the run is kept as the call that made it: n the   *)
(* number of the generate_flow_record call, t its time_index, side the     *)
(* element of the returned pair.  Record(o) is the dict itself.            *)
(***************************************************************************)
FlowObject(n, t, side) == [n |-> n, t |-> t, side |-> side]

Record(o) ==
    generate_flow_record(o.t, RunDraw(o.n))[IF o.side = "client" THEN 1 ELSE 2]

\* flows = flow_buffer[time_index_ms], or [] on KeyError
BufferTake(buf, t) == IF t \in DOMAIN buf THEN buf[t] ELSE <<>>

\* A deletion that leaves the drained key in the buffer.
BufferDelKept(buf, t) == buf

\* del flow_buffer[time_index_ms]
BufferDel(buf, t) == [k \in DOMAIN buf \ {t} |-> buf[k]]

\* A key that leaves the jitter out: the call's time plus the latency.
BufferKeyNoJitter(future_flow) == future_flow.t + SERVER_LATENCY

\* the key a future flow is filed under: future_flow["timestamp"]
BufferKey(future_flow) == Record(future_flow).timestamp

\* flow_buffer[key].append(future_flow), or flow_buffer[key] = [future_flow]
\* (CHOOSE from the one-element set: the key k is evaluated once)
BufferPut(buf, future_flow) ==
    CHOOSE put \in
        { IF k \in DOMAIN buf
          THEN [buf EXCEPT ![k] = Append(@, future_flow)]
          ELSE [x \in DOMAIN buf \cup {k} |->
                   IF x = k THEN <<future_flow>> ELSE buf[x]] :
          k \in {BufferKey(future_flow)} } : TRUE

\* raw_flow_csv_writer.writerow(flow_record): the row keeps the timestamp,
\* first and last columns of the record, with the object written (flow) and
\* the clock value of the write (at)
RawRow(flow_record, clock) ==
    [flow |-> flow_record, at |-> clock,
     timestamp |-> Record(flow_record).timestamp,
     first |-> Record(flow_record).first,
     last |-> Record(flow_record).last]

\* while len(flows) < flows_per_ms: generate a pair, keep the client record,
\* file the server record in the buffer
RECURSIVE FillMillisecond(_, _, _, _)
FillMillisecond(flows, buf, n, t) ==
    IF Len(flows) < flows_per_ms
    THEN CHOOSE filled \in
             { FillMillisecond(Append(flows, FlowObject(n, t, "client")),
                               put, n + 1, t) :
               put \in {BufferPut(buf, FlowObject(n, t, "server"))} } : TRUE
    ELSE [flows |-> flows, flow_buffer |-> buf, calls |-> n]

\* A loop test that is off by one.
WhileConditionShort == total_flows_made < flows_to_make - 1

\* while total_flows_made < flows_to_make
WhileCondition == total_flows_made < flows_to_make

\* A clamp that lets the index len(raw_flows) through.
ClampIndexLate(r, len) == IF r <= len THEN r ELSE len - 1

\* random_flow if random_flow < len(raw_flows) else len(raw_flows) - 1
ClampIndex(r, len) == IF r < len THEN r ELSE len - 1

\* list indexing raw_flows[i] succeeds for -len <= i < len
IndexOk(i, len) == -len <= i /\ i < len

\* end_index left as it is
NextEndIndexKept == end_index

\* end_index = end_index + sampling_rate - 1
NextEndIndex == end_index + sampling_rate - 1

(***************************************************************************)
(* Initial state: generate_data has been called with its parameters.       *)
(***************************************************************************)
NoFlowBuffer == [k \in {} |-> <<>>]

\* no to_bytes call is going on
BytesIdle ==
    /\ record_arg = <<>>
    /\ record_bytes = <<>>

\* no call of the driver's set-up (random_asns, make_route_table,
\* build_server_ip_table) is going on
DriverIdle ==
    /\ asn_table = <<>>
    /\ asn_table_in = <<>>
    /\ asns_to_select = 0
    /\ new_table = <<>>
    /\ selected_rows = <<>>
    /\ from_ip = <<>>
    /\ to_ip = <<>>
    /\ server_ip_table = <<>>

\* generate_data has not reached line 590: its locals csv_raw_file,
\* csv_sampled_file and flows are not bound, nothing has failed
FilesUnbound ==
    /\ raw_file = "unbound"
    /\ sampled_file = "unbound"
    /\ flows_bound = FALSE
    /\ failure = "none"

\* no get_asns call is going on
CleanIdle ==
    /\ tsv_file = <<>>
    /\ ip2asn = <<>>
    /\ index = 0
    /\ dropped = 0

FlowsToMakeValues(fpm) ==
    {0, 1} \cup ((fpm * MaxRunMs - MS_PER_SECOND)..(fpm * MaxRunMs))

Init ==
    /\ pc = "setup"
    /\ flows_per_ms \in 1..MaxFlowsPerMs
    /\ flows_to_make \in FlowsToMakeValues(flows_per_ms)
    /\ sampling_rate \in 1..MaxSamplingRate
    /\ jitter_seq \in [1..JitterPeriod -> RunJitterDraws]
    /\ calls = 0
    /\ flow_buffer = NoFlowBuffer
    /\ time_index_ms = START_TIME_MS
    /\ total_flows_made = 0
    /\ total_sampled_flows_made = 0
    /\ raw_flows = <<>>
    /\ ms_iter = 0
    /\ seg_iter = 0
    /\ start_index = 0
    /\ end_index = 0
    /\ drawn = 0
    /\ random_flow = 0
    /\ csv_raw_file = <<>>
    /\ window_sampled = 0
    /\ progress = 0
    /\ exc = "none"
    /\ ret = <<>>
    /\ time_index = 0
    /\ pair = <<>>
    /\ write_errno = 0
    /\ system_id \in { init_system_id(<<>>, u) : u \in uuid4_hex }
    /\ BytesIdle
    /\ DriverIdle
    /\ FilesUnbound
    /\ CleanIdle

(***************************************************************************)
(* Lines 666-675, the finally block, entered with the exception in_flight  *)
(* ("none": none) and the locals csv_raw_file and csv_sampled_file in the  *)
(* states raw and sampled, flows being bound or not.  Reading an unbound   *)
(* local raises UnboundLocalError, which `except OSError` does not catch   *)
(* and which replaces the exception in flight.  fails_at names the call of *)
(* lines 668-669 that raises OSError ("none": none does): the handler of   *)
(* lines 672-673 passes, and the calls after it are not made.  A close     *)
(* that raises has closed its file.  The value is what the block leaves of *)
(* the files and the exception that leaves generate_data.                  *)
(***************************************************************************)
\* del raw_flows; del flows
AfterDel(bound, in_flight) ==
    IF bound THEN in_flight ELSE "UnboundLocalError"

Finally(raw, sampled, bound, in_flight, fails_at) ==
    IF raw = "unbound"
    THEN [raw_file |-> raw, sampled_file |-> sampled,
          exc |-> "UnboundLocalError"]
    ELSE IF fails_at = "raw_flush"
    THEN [raw_file |-> raw, sampled_file |-> sampled,
          exc |-> AfterDel(bound, in_flight)]
    ELSE IF fails_at = "raw_close"
    THEN [raw_file |-> "closed", sampled_file |-> sampled,
          exc |-> AfterDel(bound, in_flight)]
    ELSE IF sampled = "unbound"
    THEN [raw_file |-> "closed", sampled_file |-> sampled,
          exc |-> "UnboundLocalError"]
    ELSE [raw_file |-> "closed", sampled_file |-> "closed",
          exc |-> AfterDel(bound, in_flight)]

\* lines 666-677: control leaves the try statement, the finally block runs,
\* and the exception that leaves it goes to the caller, or line 677 returns
\* (total, total_sampled_flows_made)
Leave(raw, sampled, bound, in_flight, fails_at, total) ==
    LET f == Finally(raw, sampled, bound, in_flight, fails_at)
    IN  /\ raw_file' = f.raw_file
        /\ sampled_file' = f.sampled_file
        /\ exc' = f.exc
        /\ pc' = IF f.exc = "none" THEN "done" ELSE "raised"
        /\ ret' = IF f.exc = "none"
                  THEN <<total, total_sampled_flows_made>>
                  ELSE ret

(***************************************************************************)
(* Lines 587-607: the files are opened, one pair is generated at time 0    *)
(* for the CSV field names and dropped, the headers are written, flows is  *)
(* bound.                                                                  *)
(***************************************************************************)
Setup ==
    /\ pc = "setup"
    /\ calls' = calls + 1
    /\ raw_file' = "open"
    /\ sampled_file' = "open"
    /\ flows_bound' = TRUE
    /\ pc' = "while"
    /\ UNCHANGED <<flows_to_make, flows_per_ms, sampling_rate, jitter_seq,
                   flow_buffer, time_index_ms, total_flows_made,
                   total_sampled_flows_made, raw_flows, ms_iter, seg_iter,
                   start_index, end_index, drawn, random_flow, csv_raw_file,
                   window_sampled, progress, exc, ret, time_index, pair,
                   write_errno, system_id, failure, bytes_vars, driver_vars,
                   clean_vars>>

(***************************************************************************)
(* Line 608: the test of the outer loop; when it fails control leaves the  *)
(* try statement and generate_data returns                                 *)
(* (total_flows_made, total_sampled_flows_made).                           *)
(***************************************************************************)
WhileTest ==
    /\ pc = "while"
    /\ IF WhileCondition
       THEN /\ pc' = "ms_loop"
            /\ ms_iter' = 0
            /\ UNCHANGED <<ret, exc, raw_file, sampled_file>>
       ELSE /\ ms_iter' = ms_iter
            /\ Leave(raw_file, sampled_file, flows_bound, "none", "none",
                     total_flows_made)
    /\ UNCHANGED <<flows_to_make, flows_per_ms, sampling_rate, jitter_seq,
                   calls, flow_buffer, time_index_ms, total_flows_made,
                   total_sampled_flows_made, raw_flows, seg_iter, start_index,
                   end_index, drawn, random_flow, csv_raw_file,
                   window_sampled, progress, time_index, pair,
                   write_errno, system_id, flows_bound, failure, bytes_vars,
                   driver_vars, clean_vars>>

(***************************************************************************)
(* Lines 610-645: one iteration of the millisecond loop.  After the last   *)
(* iteration of a window, lines 647-648 set up the sampling pass.          *)
(***************************************************************************)
Tick ==
    /\ pc = "ms_loop"
    /\ ms_iter < MS_PER_SECOND
    /\ \E r \in {FillMillisecond(BufferTake(flow_buffer, time_index_ms),
                                BufferDel(flow_buffer, time_index_ms),
                                calls, time_index_ms)} :
           /\ flow_buffer' = r.flow_buffer
           /\ calls' = r.calls
           /\ total_flows_made' = total_flows_made + Len(r.flows)
           /\ csv_raw_file' = csv_raw_file \o
                  [i \in 1..Len(r.flows) |->
                      RawRow(r.flows[i], time_index_ms)]
           /\ raw_flows' = raw_flows \o r.flows
    /\ time_index_ms' = time_index_ms + 1
    /\ ms_iter' = ms_iter + 1
    /\ IF ms_iter + 1 = MS_PER_SECOND
       THEN /\ pc' = "sampling"
            /\ start_index' = 0
            /\ end_index' = sampling_rate - 1
            /\ seg_iter' = 0
            /\ window_sampled' = 0
       ELSE /\ pc' = pc
            /\ UNCHANGED <<start_index, end_index, seg_iter, window_sampled>>
    /\ UNCHANGED <<flows_to_make, flows_per_ms, sampling_rate, jitter_seq,
                   total_sampled_flows_made, drawn, random_flow, progress,
                   exc, ret, time_index, pair,
                   write_errno, system_id, file_vars, bytes_vars, driver_vars,
                   clean_vars>>

(***************************************************************************)
(* Lines 649-655: one iteration of the segment loop.  randint raises       *)
(* ValueError on an empty range, the list read IndexError out of range;    *)
(* neither is caught, so generate_data ends with it, through the finally   *)
(* block.                                                                  *)
(***************************************************************************)
Sample ==
    /\ pc = "sampling"
    /\ seg_iter < segments
    /\ IF start_index > end_index
       THEN /\ failure' = "ValueError"
            /\ Leave(raw_file, sampled_file, flows_bound, "ValueError",
                     "none", total_flows_made)
            /\ UNCHANGED <<drawn, random_flow, start_index, end_index,
                           total_sampled_flows_made, seg_iter,
                           window_sampled>>
       ELSE \E r \in randint(start_index, end_index) :
              /\ drawn' = r
              /\ random_flow' = ClampIndex(r, Len(raw_flows))
              /\ IF IndexOk(random_flow', Len(raw_flows))
                 THEN /\ window_sampled' = window_sampled + 1
                      /\ start_index' = end_index + 1
                      /\ end_index' = NextEndIndex
                      /\ total_sampled_flows_made' =
                             total_sampled_flows_made + 1
                      /\ seg_iter' = seg_iter + 1
                      /\ UNCHANGED <<pc, exc, ret, file_vars>>
                 ELSE /\ failure' = "IndexError"
                      /\ Leave(raw_file, sampled_file, flows_bound,
                               "IndexError", "none", total_flows_made)
                      /\ UNCHANGED <<start_index, end_index,
                                     total_sampled_flows_made, seg_iter,
                                     window_sampled>>
    /\ UNCHANGED <<flows_to_make, flows_per_ms, sampling_rate, jitter_seq,
                   calls, flow_buffer, time_index_ms, total_flows_made,
                   raw_flows, ms_iter, csv_raw_file, progress,
                   time_index, pair,
                   write_errno, system_id, flows_bound, bytes_vars,
                   driver_vars, clean_vars>>

(***************************************************************************)
(* Lines 656-660: the end of a window, after the last segment.  drawn and  *)
(* random_flow are not read again before the next pass assigns them.       *)
(***************************************************************************)
EndWindow ==
    /\ pc = "sampling"
    /\ seg_iter = segments
    /\ raw_flows' = <<>>
    /\ progress' = progress + fps
    /\ drawn' = 0
    /\ random_flow' = 0
    /\ pc' = "while"
    /\ UNCHANGED <<flows_to_make, flows_per_ms, sampling_rate, jitter_seq,
                   calls, flow_buffer, time_index_ms, total_flows_made,
                   total_sampled_flows_made, ms_iter, seg_iter, start_index,
                   end_index, csv_raw_file, window_sampled, exc, ret,
                   time_index, pair,
                   write_errno, system_id, file_vars, bytes_vars, driver_vars,
                   clean_vars>>

Next == Setup \/ WhileTest \/ Tick \/ Sample \/ EndWindow

Spec == Init /\ [][Next]_vars

\* generate_data is one sequential call that nothing suspends: while a
\* statement is left to execute, one is executed
SpecLive == Spec /\ WF_vars(Next)

(***************************************************************************)
(* SpecFail: generate_data on an output device that can fail.  An open, a  *)
(* writeheader or a writerow call may raise OSError with an errno of the   *)
(* no-space kind: ENOMEM (12) or ENOSPC (28).  Lines 662-664 catch it and  *)
(* raise a new OSError only for errno 12; otherwise control falls through  *)
(* the finally block to the return of line 677.  The flush or the close of *)
(* the raw file in the finally block may raise OSError too.                *)
(***************************************************************************)
WriteErrnos == {ENOMEM, 28}

\* except OSError as e: if e.errno == 12: raise OSError(...)
Reraised(errno) == errno = ENOMEM

\* the exception in flight when the handler of lines 662-664 is left
AfterExcept(errno) == IF Reraised(errno) THEN "OSError" ELSE "none"

\* the calls of lines 668-669 that can raise OSError
CleanupCalls == {"raw_flush", "raw_close"}

\* line 590 or line 591: an open call raises OSError, the local it would
\* have bound stays unbound
OpenFails ==
    /\ pc = "setup"
    /\ failure' = "OSError"
    /\ \E which \in {"raw", "sampled"}, errno \in WriteErrnos :
          Leave(IF which = "raw" THEN "unbound" ELSE "open", "unbound",
                FALSE, AfterExcept(errno), "none", total_flows_made)
    /\ UNCHANGED <<flows_to_make, flows_per_ms, sampling_rate, jitter_seq,
                   calls, flow_buffer, time_index_ms, total_flows_made,
                   total_sampled_flows_made, raw_flows, ms_iter, seg_iter,
                   start_index, end_index, drawn, random_flow, csv_raw_file,
                   window_sampled, progress, time_index, pair,
                   write_errno, system_id, flows_bound, bytes_vars,
                   driver_vars, clean_vars>>

\* lines 590-600: both files are opened, the pair for the field names is
\* generated, and a writeheader call raises OSError before line 602 binds
\* flows
HeaderWriteFails ==
    /\ pc = "setup"
    /\ calls' = calls + 1
    /\ failure' = "OSError"
    /\ \E errno \in WriteErrnos :
          /\ write_errno' = errno
          /\ Leave("open", "open", FALSE, AfterExcept(errno), "none",
                   total_flows_made)
    /\ UNCHANGED <<flows_to_make, flows_per_ms, sampling_rate, jitter_seq,
                   flow_buffer, time_index_ms, total_flows_made,
                   total_sampled_flows_made, raw_flows, ms_iter, seg_iter,
                   start_index, end_index, drawn, random_flow, csv_raw_file,
                   window_sampled, progress, time_index, pair,
                   system_id, flows_bound, bytes_vars, driver_vars,
                   clean_vars>>

\* lines 611-638 of one iteration of the millisecond loop, the writerow call
\* of row k + 1 of the working set raising OSError
RawWriteFails ==
    /\ pc = "ms_loop"
    /\ ms_iter < MS_PER_SECOND
    /\ LET r == FillMillisecond(BufferTake(flow_buffer, time_index_ms),
                                BufferDel(flow_buffer, time_index_ms),
                                calls, time_index_ms)
           flows == r.flows
       IN  /\ flow_buffer' = r.flow_buffer
           /\ calls' = r.calls
           /\ total_flows_made' = total_flows_made + Len(flows)
           /\ \E k \in 0..(Len(flows) - 1) :
                  csv_raw_file' = csv_raw_file \o
                      [i \in 1..k |-> RawRow(flows[i], time_index_ms)]
    /\ failure' = "OSError"
    /\ \E errno \in WriteErrnos :
          /\ write_errno' = errno
          /\ Leave(raw_file, sampled_file, flows_bound, AfterExcept(errno),
                   "none", total_flows_made')
    /\ UNCHANGED <<flows_to_make, flows_per_ms, sampling_rate, jitter_seq,
                   time_index_ms, total_sampled_flows_made, raw_flows,
                   ms_iter, seg_iter, start_index, end_index, drawn,
                   random_flow, window_sampled, progress, time_index, pair,
                   system_id, flows_bound, bytes_vars, driver_vars,
                   clean_vars>>

\* lines 650-652 of one iteration of the segment loop, the writerow call of
\* the sampled row raising OSError
SampledWriteFails ==
    /\ pc = "sampling"
    /\ seg_iter < segments
    /\ start_index <= end_index
    /\ \E r \in randint(start_index, end_index) :
          /\ IndexOk(ClampIndex(r, Len(raw_flows)), Len(raw_flows))
          /\ drawn' = r
          /\ random_flow' = ClampIndex(r, Len(raw_flows))
    /\ failure' = "OSError"
    /\ \E errno \in WriteErrnos :
          /\ write_errno' = errno
          /\ Leave(raw_file, sampled_file, flows_bound, AfterExcept(errno),
                   "none", total_flows_made)
    /\ UNCHANGED <<flows_to_make, flows_per_ms, sampling_rate, jitter_seq,
                   calls, flow_buffer, time_index_ms, total_flows_made,
                   total_sampled_flows_made, raw_flows, ms_iter, seg_iter,
                   start_index, end_index, csv_raw_file, window_sampled,
                   progress, time_index, pair, system_id, flows_bound,
                   bytes_vars, driver_vars, clean_vars>>

\* line 608 fails its test and nothing has failed, and then the flush or the
\* close of the raw file (lines 668-669) raises OSError
CleanupFails ==
    /\ pc = "while"
    /\ ~WhileCondition
    /\ \E fails_at \in CleanupCalls :
          Leave(raw_file, sampled_file, flows_bound, "none", fails_at,
                total_flows_made)
    /\ UNCHANGED <<flows_to_make, flows_per_ms, sampling_rate, jitter_seq,
                   calls, flow_buffer, time_index_ms, total_flows_made,
                   total_sampled_flows_made, raw_flows, ms_iter, seg_iter,
                   start_index, end_index, drawn, random_flow, csv_raw_file,
                   window_sampled, progress, time_index, pair,
                   write_errno, system_id, flows_bound, failure, bytes_vars,
                   driver_vars, clean_vars>>

NextFail ==
    \/ Next
    \/ OpenFails
    \/ HeaderWriteFails
    \/ RawWriteFails
    \/ SampledWriteFails
    \/ CleanupFails

SpecFail == Init /\ [][NextFail]_vars

(***************************************************************************)
(* SpecPair: generate_flow_record called at a time index, with every       *)
(* combination of the values of Draws; no generate_data run is going on.   *)
(***************************************************************************)
TimeIndexes == {0, START_TIME_MS, START_TIME_MS + 1}

InitPair ==
    /\ pc = "pair_call"
    /\ time_index \in TimeIndexes
    /\ pair = <<>>
    /\ flows_to_make = 0
    /\ flows_per_ms = 1
    /\ sampling_rate = 1
    /\ jitter_seq = [i \in 1..JitterPeriod |-> 0]
    /\ calls = 0
    /\ flow_buffer = NoFlowBuffer
    /\ time_index_ms = START_TIME_MS
    /\ total_flows_made = 0
    /\ total_sampled_flows_made = 0
    /\ raw_flows = <<>>
    /\ ms_iter = 0
    /\ seg_iter = 0
    /\ start_index = 0
    /\ end_index = 0
    /\ drawn = 0
    /\ random_flow = 0
    /\ csv_raw_file = <<>>
    /\ window_sampled = 0
    /\ progress = 0
    /\ exc = "none"
    /\ ret = <<>>
    /\ write_errno = 0
    /\ system_id \in SystemIds
    /\ BytesIdle
    /\ DriverIdle
    /\ FilesUnbound
    /\ CleanIdle

run_vars == <<flows_to_make, flows_per_ms, sampling_rate, jitter_seq, calls,
              flow_buffer, time_index_ms, total_flows_made,
              total_sampled_flows_made, raw_flows, ms_iter, seg_iter,
              start_index, end_index, drawn, random_flow, csv_raw_file,
              window_sampled, progress, exc, ret, write_errno, driver_vars,
              file_vars, clean_vars>>

\* current_flow, future_flow = self.generate_flow_record(time_index)
CallGenerateFlowRecord ==
    /\ pc = "pair_call"
    /\ \E d \in Draws : pair' = generate_flow_record(time_index, d)
    /\ pc' = "pair_return"
    /\ UNCHANGED <<time_index, system_id, bytes_vars>>
    /\ UNCHANGED run_vars

\* n.to_bytes(length, byteorder="big") raises OverflowError unless
\* 0 <= n < 256 ** length
Fits(n, length) == n >= 0 /\ (length >= 4 \/ n < Pow2(8 * length))

\* n.to_bytes(length, byteorder="big") for an n that fits
RECURSIVE int_to_bytes(_, _)
int_to_bytes(n, length) ==
    IF length = 0 THEN <<>>
    ELSE Append(int_to_bytes(n \div 256, length - 1), n % 256)

\* the integer fields to_bytes writes after the system_id, in its order,
\* with the number of bytes of each
BytesLayout ==
    << <<"srcaddr", 4>>, <<"dstaddr", 4>>, <<"nexthop", 4>>, <<"dPkts", 4>>,
       <<"dOctets", 4>>, <<"srcport", 2>>, <<"dstport", 2>>,
       <<"tcp_flags", 1>>, <<"protocol", 1>>, <<"tos", 1>>, <<"src_as", 2>>,
       <<"dst_as", 2>>, <<"src_mask", 4>>, <<"dst_mask", 4>>,
       <<"input", 2>>, <<"output", 2>> >>

\* the concatenation of the fields n.. of BytesLayout
RECURSIVE LayoutBytes(_, _)
LayoutBytes(flow_record, n) ==
    IF n > Len(BytesLayout) THEN <<>>
    ELSE int_to_bytes(flow_record[BytesLayout[n][1]], BytesLayout[n][2])
             \o LayoutBytes(flow_record, n + 1)

\* some field does not fit its width: to_bytes raises OverflowError
to_bytes_overflows(flow_record) ==
    \/ ~Fits(flow_record.timestamp, 6)
    \/ \E n \in DOMAIN BytesLayout :
           ~Fits(flow_record[BytesLayout[n][1]], BytesLayout[n][2])

to_bytes(flow_record) ==
    int_to_bytes(flow_record.timestamp, 6)
        \o fromhex(flow_record.system_id)
        \o LayoutBytes(flow_record, 1)

\* to_bytes(flow_record) for one record of the pair
ToBytes ==
    /\ pc = "pair_return"
    /\ \E k \in {1, 2} :
          /\ record_arg' = pair[k]
          /\ IF to_bytes_overflows(pair[k])
             THEN /\ pc' = "raised"
                  /\ exc' = "OverflowError"
                  /\ record_bytes' = record_bytes
             ELSE /\ pc' = "bytes_return"
                  /\ exc' = exc
                  /\ record_bytes' = to_bytes(pair[k])
    /\ UNCHANGED <<time_index, pair, system_id, flows_to_make, flows_per_ms,
                   sampling_rate, jitter_seq, calls, flow_buffer,
                   time_index_ms, total_flows_made, total_sampled_flows_made,
                   raw_flows, ms_iter, seg_iter, start_index, end_index,
                   drawn, random_flow, csv_raw_file, window_sampled, progress,
                   ret, write_errno, driver_vars, file_vars, clean_vars>>

\* the caller goes on to another call
NextCall ==
    /\ pc \in {"pair_return", "bytes_return"}
    /\ time_index' \in TimeIndexes
    /\ pair' = <<>>
    /\ record_arg' = <<>>
    /\ record_bytes' = <<>>
    /\ pc' = "pair_call"
    /\ UNCHANGED system_id
    /\ UNCHANGED run_vars

NextPair == CallGenerateFlowRecord \/ ToBytes \/ NextCall

SpecPair == InitPair /\ [][NextPair]_vars

(***************************************************************************)
(* SpecAsns: the driver's calls random_asns(asn_table, asns_to_select) and *)
(* make_route_table(selected_asns).  A row of asn_table is the tuple       *)
(* <<range_start, range_end, AS_number, country_code, AS_description>>,    *)
(* its three numbers held as the integers int() reads from the strings.    *)
(***************************************************************************)
\* subnet_table = [0] * 25, then subnet_table[i] = 2 ** i for i in 24..8
subnet_table == [i \in 0..24 |-> IF i >= 8 THEN Pow2(i) ELSE 0]

\* subnet = 8; for sub in range(24, 7, -1): the first sub for which
\* not int(row[1]) - int(row[0]) > subnet_table[sub]
RECURSIVE FindSubnet(_, _)
FindSubnet(row, sub) ==
    IF sub < 8 THEN 8
    ELSE IF ~(row[2] - row[1] > subnet_table[sub]) THEN sub
    ELSE FindSubnet(row, sub - 1)

\* the route random_asns builds from a row
Route(row) ==
    [subnet_bits |-> FindSubnet(row, 24),
     network_address |-> row[1],
     broadcast_address |-> row[2],
     ip_range_start |-> row[1] + 2,
     ip_range_end |-> row[2] - 1,
     asn |-> row[3],
     country |-> row[4],
     as_description |-> row[5]]

\* new_table[route["asn"]] = route
DictPut(d, k, v) == [x \in DOMAIN d \cup {k} |-> IF x = k THEN v ELSE d[x]]

\* del asn_table[i], i counted from 0
ListDel(l, i) == SubSeq(l, 1, i) \o SubSeq(l, i + 2, Len(l))

\* A test that lets one request too many through.
TooManyRequestedLate == Len(asn_table) + 1 < asns_to_select

\* if len(asn_table) < asns_to_select: raise ValueError
TooManyRequested == Len(asn_table) < asns_to_select

\* ipaddress.ip_address(s).packed: the four bytes of a dotted quad, which is
\* held as the tuple of its four numbers
packed(ip) == [i \in 1..4 |-> ip[i] % 256]

\* int.from_bytes(b, "big")
RECURSIVE int_from_bytes(_)
int_from_bytes(b) ==
    IF Len(b) = 0 THEN 0
    ELSE 256 * int_from_bytes(SubSeq(b, 1, Len(b) - 1)) + b[Len(b)]

DEFAULT_PEERING_INTERFACES ==
    << [ifindex |-> 10, next_hop |-> <<10, 0, 10, 2>>],
       [ifindex |-> 11, next_hop |-> <<10, 0, 20, 2>>],
       [ifindex |-> 12, next_hop |-> <<10, 0, 30, 2>>],
       [ifindex |-> 13, next_hop |-> <<10, 0, 40, 2>>],
       [ifindex |-> 14, next_hop |-> <<10, 0, 0, 2>>] >>

\* the interfaces after the first loop of make_route_table has added
\* next_hop_b and next_hop_i to each
peering_interfaces ==
    [n \in DOMAIN DEFAULT_PEERING_INTERFACES |->
        LET interface == DEFAULT_PEERING_INTERFACES[n]
        IN  [ifindex |-> interface.ifindex,
             next_hop |-> interface.next_hop,
             next_hop_b |-> packed(interface.next_hop),
             next_hop_i |-> int_from_bytes(packed(interface.next_hop))]]

\* `interface` when the second loop runs: the variable of the first loop,
\* left at the last interface of the list
interface_after_loop == peering_interfaces[Len(DEFAULT_PEERING_INTERFACES)]

\* asns[asn]["ifindex"] = interface["ifindex"]
assigned_ifindex(ifindex) == interface_after_loop.ifindex

\* asns[asn] after its two assignments, ifindex being the value drawn
WithInterface(route, ifindex) ==
    [f \in DOMAIN route \cup {"next_hop", "ifindex"} |->
        IF f = "next_hop" THEN peering_interfaces[ifindex + 1].next_hop_i
        ELSE IF f = "ifindex" THEN assigned_ifindex(ifindex)
        ELSE route[f]]

AsnRows ==
    { <<16777216, 16777471, 13335, "US", "CLOUDFLARENET">>,
      <<134744064, 134809599, 15169, "US", "GOOGLE">>,
      <<50331648, 83886079, 7018, "US", "ATT-INTERNET4">>,
      <<17301504, 34078720, 13335, "US", "CLOUDFLARENET">> }

\* the lists of at most MaxAsnRows different rows
AsnTables ==
    UNION { { t \in [1..n -> AsnRows] :
                \A i, j \in 1..n : i # j => t[i] # t[j] } :
            n \in 0..MaxAsnRows }

InitAsns ==
    /\ pc = "asns_call"
    /\ asn_table \in AsnTables
    /\ asn_table_in = asn_table
    /\ asns_to_select \in 0..(MaxAsnRows + 1)
    /\ new_table = <<>>
    /\ selected_rows = <<>>
    /\ from_ip = <<>>
    /\ to_ip = <<>>
    /\ server_ip_table = <<>>
    /\ exc = "none"
    /\ time_index = 0
    /\ pair = <<>>
    /\ flows_to_make = 0
    /\ flows_per_ms = 1
    /\ sampling_rate = 1
    /\ jitter_seq = [i \in 1..JitterPeriod |-> 0]
    /\ calls = 0
    /\ flow_buffer = NoFlowBuffer
    /\ time_index_ms = START_TIME_MS
    /\ total_flows_made = 0
    /\ total_sampled_flows_made = 0
    /\ raw_flows = <<>>
    /\ ms_iter = 0
    /\ seg_iter = 0
    /\ start_index = 0
    /\ end_index = 0
    /\ drawn = 0
    /\ random_flow = 0
    /\ csv_raw_file = <<>>
    /\ window_sampled = 0
    /\ progress = 0
    /\ ret = <<>>
    /\ write_errno = 0
    /\ system_id \in { init_system_id(<<>>, u) : u \in uuid4_hex }
    /\ BytesIdle
    /\ FilesUnbound
    /\ CleanIdle

\* the variables of generate_data, generate_flow_record and to_bytes
call_vars == <<flows_to_make, flows_per_ms, sampling_rate, jitter_seq, calls,
               flow_buffer, time_index_ms, total_flows_made,
               total_sampled_flows_made, raw_flows, ms_iter, seg_iter,
               start_index, end_index, drawn, random_flow, csv_raw_file,
               window_sampled, progress, ret, time_index, pair, write_errno,
               system_id, bytes_vars, file_vars>>

\* the variables the set-up calls leave alone
data_vars == <<call_vars, clean_vars>>

\* lines 263-274: the test of the request, then the empty new_table
RandomAsnsCall ==
    /\ pc = "asns_call"
    /\ IF TooManyRequested
       THEN /\ pc' = "raised"
            /\ exc' = "ValueError"
       ELSE /\ pc' = "asns_loop"
            /\ exc' = exc
    /\ UNCHANGED <<asn_table, asn_table_in, asns_to_select, new_table,
                   selected_rows, from_ip, to_ip, server_ip_table>>
    /\ UNCHANGED data_vars

\* lines 275-302: one iteration of `for x in range(asns_to_select)`, x being
\* the number of rows picked so far; randrange raises ValueError on an
\* empty range
SelectRoute ==
    /\ pc = "asns_loop"
    /\ Len(selected_rows) < asns_to_select
    /\ IF Len(asn_table) = 0
       THEN /\ pc' = "raised"
            /\ exc' = "ValueError"
            /\ UNCHANGED <<asn_table, new_table, selected_rows>>
       ELSE \E i \in randrange(0, Len(asn_table)) :
              LET route == Route(asn_table[i + 1])
              IN  /\ new_table' = DictPut(new_table, route.asn, route)
                  /\ selected_rows' = Append(selected_rows, asn_table[i + 1])
                  /\ asn_table' = ListDel(asn_table, i)
                  /\ UNCHANGED <<pc, exc>>
    /\ UNCHANGED <<asn_table_in, asns_to_select, from_ip, to_ip,
                   server_ip_table>>
    /\ UNCHANGED data_vars

\* line 303: return new_table
RandomAsnsReturn ==
    /\ pc = "asns_loop"
    /\ Len(selected_rows) = asns_to_select
    /\ pc' = "asns_return"
    /\ UNCHANGED <<exc, driver_vars>>
    /\ UNCHANGED data_vars

\* lines 319-337: make_route_table(asns), asns being the dict random_asns
\* returned; each route gets the next hop of the interface drawn for it
MakeRouteTable ==
    /\ pc = "asns_return"
    /\ \E ifindex \in [DOMAIN new_table ->
                         randrange(0, Len(DEFAULT_PEERING_INTERFACES))] :
          new_table' = [asn \in DOMAIN new_table |->
                           WithInterface(new_table[asn], ifindex[asn])]
    /\ pc' = "route_table_made"
    /\ UNCHANGED <<exc, asn_table, asn_table_in, asns_to_select,
                   selected_rows, from_ip, to_ip, server_ip_table>>
    /\ UNCHANGED data_vars

NextAsns ==
    RandomAsnsCall \/ SelectRoute \/ RandomAsnsReturn \/ MakeRouteTable

SpecAsns == InitAsns /\ [][NextAsns]_vars

(***************************************************************************)
(* SpecPool: build_server_ip_table(from_ip, to_ip), an address being the   *)
(* tuple of the four numbers of its dotted quad.                           *)
(***************************************************************************)
\* A test that never finds the two addresses inverted.
InvertedNever(a, b) == FALSE

\* if ip_start > ip_end: swap them
Inverted(a, b) == a > b

\* ip_start and ip_end after lines 350-363: the two addresses as integers,
\* swapped when they are inverted
ip_start(from, to) ==
    LET first_ip == int_from_bytes(packed(from))
        last_ip == int_from_bytes(packed(to))
    IN  IF Inverted(first_ip, last_ip) THEN last_ip ELSE first_ip

ip_end(from, to) ==
    LET first_ip == int_from_bytes(packed(from))
        last_ip == int_from_bytes(packed(to))
    IN  IF Inverted(first_ip, last_ip) THEN first_ip ELSE last_ip

\* i of the loop of lines 365-369: ip_start, one more for each address
\* appended
NextServerIp == ip_start(from_ip, to_ip) + Len(server_ip_table)

\* the addresses the calls are made with; SERVER_RANGE is
\* ("10.10.10.10", "10.10.10.100")
ServerAddresses ==
    { <<10, 10, 9, 250>>, <<10, 10, 10, 0>>, <<10, 10, 10, 10>>,
      <<10, 10, 10, 11>>, <<10, 10, 10, 100>> }

InitPool ==
    /\ pc = "pool_loop"
    /\ from_ip \in ServerAddresses
    /\ to_ip \in ServerAddresses
    /\ server_ip_table = <<>>
    /\ asn_table = <<>>
    /\ asn_table_in = <<>>
    /\ asns_to_select = 0
    /\ new_table = <<>>
    /\ selected_rows = <<>>
    /\ exc = "none"
    /\ time_index = 0
    /\ pair = <<>>
    /\ flows_to_make = 0
    /\ flows_per_ms = 1
    /\ sampling_rate = 1
    /\ jitter_seq = [i \in 1..JitterPeriod |-> 0]
    /\ calls = 0
    /\ flow_buffer = NoFlowBuffer
    /\ time_index_ms = START_TIME_MS
    /\ total_flows_made = 0
    /\ total_sampled_flows_made = 0
    /\ raw_flows = <<>>
    /\ ms_iter = 0
    /\ seg_iter = 0
    /\ start_index = 0
    /\ end_index = 0
    /\ drawn = 0
    /\ random_flow = 0
    /\ csv_raw_file = <<>>
    /\ window_sampled = 0
    /\ progress = 0
    /\ ret = <<>>
    /\ write_errno = 0
    /\ system_id \in { init_system_id(<<>>, u) : u \in uuid4_hex }
    /\ BytesIdle
    /\ FilesUnbound
    /\ CleanIdle

\* lines 367-369: one iteration of `while i < stop_at`, stop_at being
\* ip_end + 1
AppendServerIp ==
    /\ pc = "pool_loop"
    /\ NextServerIp < ip_end(from_ip, to_ip) + 1
    /\ server_ip_table' = Append(server_ip_table, NextServerIp)
    /\ UNCHANGED <<pc, exc, asn_table, asn_table_in, asns_to_select,
                   new_table, selected_rows, from_ip, to_ip>>
    /\ UNCHANGED data_vars

\* lines 370-371: the loop is over, the list is returned
BuildServerIpTableReturn ==
    /\ pc = "pool_loop"
    /\ ~(NextServerIp < ip_end(from_ip, to_ip) + 1)
    /\ pc' = "pool_return"
    /\ UNCHANGED <<exc, driver_vars>>
    /\ UNCHANGED data_vars

NextPool == AppendServerIp \/ BuildServerIpTableReturn

SpecPool == InitPool /\ [][NextPool]_vars

(***************************************************************************)
(* SpecClean: get_asns on a TSV file of at most MaxTsvRows rows, from the  *)
(* load of the file (lines 204-206) to the return, one step per iteration  *)
(* of the cleaning loop.  A row is the list of the five fields of a line:  *)
(* range_start, range_end, AS_number, country_code, AS_description; the    *)
(* numbers stand for the strings int() reads them from, and a description  *)
(* is the tuple of its characters.                                         *)
(***************************************************************************)
\* s.startswith(prefix)
startswith(s, prefix) ==
    Len(s) >= Len(prefix) /\ SubSeq(s, 1, Len(prefix)) = prefix

\* "Not routed"
NOT_ROUTED == <<"N", "o", "t", " ", "r", "o", "u", "t", "e", "d">>

\* "-Reserved AS-"
RESERVED_AS ==
    <<"-", "R", "e", "s", "e", "r", "v", "e", "d", " ", "A", "S", "-">>

\* "DNIC-"
DNIC_PREFIX == <<"D", "N", "I", "C", "-">>

\* the if/elif chain of lines 215-240: some branch deletes the row
DropsRow(row) ==
    \/ row[5] = NOT_ROUTED
    \/ row[5] = RESERVED_AS
    \/ startswith(row[5], DNIC_PREFIX)
    \/ row[3] > 65535
    \/ row[3] = 0
    \/ row[2] < row[1] + 254

\* while index > 0
CleanCondition == index > 0

\* rows of the file: two every branch keeps (the second with the smallest
\* range and the largest AS number kept, and a description that is a proper
\* prefix of "DNIC-"), and one for each branch that drops
TsvRows ==
    { <<134744064, 134809599, 15169, "US", <<"G", "O", "O", "G", "L", "E">> >>,
      <<16777216, 16777470, 65535, "US", <<"D", "N", "I", "C">> >>,
      <<0, 16777215, 0, "None", NOT_ROUTED>>,
      <<16778240, 16779263, 23456, "None", RESERVED_AS>>,
      <<100663296, 117440511, 749, "US", DNIC_PREFIX \o <<"A", "S">> >>,
      <<16779264, 16781311, 65536, "CN", <<"C", "T">> >>,
      <<16781312, 16785407, 0, "JP", <<"I", "X">> >>,
      <<16785408, 16785661, 2519, "JP", <<"V", "E", "C", "T", "A">> >> }

\* the files of at most MaxTsvRows rows
TsvFiles == UNION { [1..n -> TsvRows] : n \in 0..MaxTsvRows }

InitClean ==
    /\ pc = "asns_load"
    /\ tsv_file \in TsvFiles
    /\ ip2asn = <<>>
    /\ index = 0
    /\ dropped = 0
    /\ exc = "none"
    /\ time_index = 0
    /\ pair = <<>>
    /\ flows_to_make = 0
    /\ flows_per_ms = 1
    /\ sampling_rate = 1
    /\ jitter_seq = [i \in 1..JitterPeriod |-> 0]
    /\ calls = 0
    /\ flow_buffer = NoFlowBuffer
    /\ time_index_ms = START_TIME_MS
    /\ total_flows_made = 0
    /\ total_sampled_flows_made = 0
    /\ raw_flows = <<>>
    /\ ms_iter = 0
    /\ seg_iter = 0
    /\ start_index = 0
    /\ end_index = 0
    /\ drawn = 0
    /\ random_flow = 0
    /\ csv_raw_file = <<>>
    /\ window_sampled = 0
    /\ progress = 0
    /\ ret = <<>>
    /\ write_errno = 0
    /\ system_id \in { init_system_id(<<>>, u) : u \in uuid4_hex }
    /\ BytesIdle
    /\ DriverIdle
    /\ FilesUnbound

\* lines 204-213: the file is read into ip2asn, the loop starts at the last
\* row
LoadTsv ==
    /\ pc = "asns_load"
    /\ ip2asn' = tsv_file
    /\ dropped' = 0
    /\ index' = Len(tsv_file) - 1
    /\ pc' = "clean_loop"
    /\ UNCHANGED <<tsv_file, exc, call_vars, driver_vars>>

\* lines 214-241: one iteration of the cleaning loop, on the row at index
CleanRow ==
    /\ pc = "clean_loop"
    /\ CleanCondition
    /\ IF DropsRow(ip2asn[index + 1])
       THEN /\ dropped' = dropped + 1
            /\ ip2asn' = ListDel(ip2asn, index)
       ELSE UNCHANGED <<dropped, ip2asn>>
    /\ index' = index - 1
    /\ UNCHANGED <<pc, tsv_file, exc, call_vars, driver_vars>>

\* lines 242-249: the loop is left, the cleaned list is saved and returned
GetAsnsReturn ==
    /\ pc = "clean_loop"
    /\ ~CleanCondition
    /\ pc' = "asns_return"
    /\ UNCHANGED <<exc, clean_vars, call_vars, driver_vars>>

NextClean == LoadTsv \/ CleanRow \/ GetAsnsReturn

SpecClean == InitClean /\ [][NextClean]_vars

(***************************************************************************)
(* Properties of generate_data (specification Spec).                       *)
(***************************************************************************)
RawRows == 1..Len(csv_raw_file)

Max(a, b) == IF a > b THEN a ELSE b

\* C1: the records written to the raw stream have non-decreasing timestamps:
\* every row's timestamp is at most the timestamp of the row after it.
C1_RawTimestampsNonDecreasing ==
    \A i \in RawRows : i < Len(csv_raw_file) =>
        csv_raw_file[i].timestamp <= csv_raw_file[i + 1].timestamp

\* C1 witness: a drained server record was written and a client record of the
\* same millisecond follows it, after records of earlier milliseconds.
C1_Witness ==
    \E i \in RawRows :
        /\ 1 < i /\ i < Len(csv_raw_file)
        /\ csv_raw_file[i].flow.side = "server"
        /\ csv_raw_file[i + 1].flow.side = "client"
        /\ csv_raw_file[i - 1].timestamp < csv_raw_file[i].timestamp

\* C2: every raw row is written at the clock value equal to its record's
\* timestamp; no record object is written twice; the buffer never holds a key
\* below the clock (a drained key is removed in its tick, an insertion targets
\* a key after the clock), and no record still in the buffer has been written.
C2_WrittenOnceAtOwnTimestamp ==
    LET written == { csv_raw_file[i].flow : i \in RawRows }
    IN  /\ \A i \in RawRows : csv_raw_file[i].timestamp = csv_raw_file[i].at
        /\ Cardinality(written) = Len(csv_raw_file)
        /\ \A k \in DOMAIN flow_buffer :
            /\ k >= time_index_ms
            /\ \A x \in 1..Len(flow_buffer[k]) : flow_buffer[k][x] \notin written

\* C2 witness: two server records filed under one key were drained and written
\* in the tick of that key, and the buffer holds later keys.
C2_Witness ==
    /\ DOMAIN flow_buffer # {}
    /\ \E i \in RawRows :
        /\ i < Len(csv_raw_file)
        /\ csv_raw_file[i].flow.side = "server"
        /\ csv_raw_file[i + 1].flow.side = "server"
        /\ csv_raw_file[i].at = csv_raw_file[i + 1].at
        /\ csv_raw_file[i].flow.t # csv_raw_file[i + 1].flow.t

\* C3: when generate_data returns the future-flow buffer is empty, and every
\* client record of the raw stream has its server record later in the stream.
C3_BufferEmptyAtReturn ==
    pc = "done" =>
        /\ DOMAIN flow_buffer = {}
        /\ \A i \in RawRows : csv_raw_file[i].flow.side = "client" =>
            \E j \in RawRows :
                /\ i < j
                /\ csv_raw_file[j].flow =
                       [csv_raw_file[i].flow EXCEPT !.side = "server"]

\* C4: a run that returns has written at least flows_to_make raw rows and
\* returns a total of at least flows_to_make; the total is the number of rows
\* written, and every millisecond the clock has passed wrote its whole working
\* set (at least flows_per_ms rows).
C4_AtLeastRequested ==
    /\ total_flows_made = Len(csv_raw_file)
    /\ \A t \in START_TIME_MS..(time_index_ms - 1) :
        Cardinality({i \in RawRows : csv_raw_file[i].at = t}) >= flows_per_ms
    /\ pc = "done" =>
        /\ Len(csv_raw_file) >= flows_to_make
        /\ ret[1] >= flows_to_make
        /\ ret[1] = Len(csv_raw_file)
        /\ (time_index_ms - START_TIME_MS) % MS_PER_SECOND = 0

\* C4 witness: a run of more than one window has returned with more rows
\* than were asked for.
C4_Witness ==
    /\ pc = "done"
    /\ flows_to_make > flows_per_ms * MS_PER_SECOND
    /\ ret[1] > flows_to_make

\* The sampling pass of a window has run all its segments.
PassDone == pc = "sampling" /\ seg_iter = segments

\* C5: for a window of n raw records and a ratio R with 1 <= R <= n, the
\* number s of rows sampled is at most ceil(n / R); when n = fps it is
\* max(1, fps div R).
C5_OnePerRatio ==
    (PassDone /\ sampling_rate <= Len(raw_flows)) =>
        /\ window_sampled * sampling_rate <= Len(raw_flows) + sampling_rate - 1
        /\ Len(raw_flows) = flows_per_ms * MS_PER_SECOND =>
               window_sampled =
                   Max(1, (flows_per_ms * MS_PER_SECOND) \div sampling_rate)

\* C6: the rows written to the sampled stream for a window number exactly
\* fps div max(1, fps div R), whatever the length of the window's buffer.
C6_SegmentsSampled ==
    PassDone =>
        window_sampled =
            (flows_per_ms * MS_PER_SECOND)
                \div Max(1, (flows_per_ms * MS_PER_SECOND) \div sampling_rate)

\* C6 witness: a pass of several segments is done on a buffer longer than fps.
C6_Witness ==
    /\ PassDone
    /\ window_sampled > 1
    /\ Len(raw_flows) > flows_per_ms * MS_PER_SECOND

\* C7: the range of the k-th segment (k = seg_iter + 1) is
\* [(k-1)*R, k*R - 1]: contiguous with the one before and R indices wide.
C7_RangesOfWidthR ==
    (pc = "sampling" /\ seg_iter < segments) =>
        /\ start_index = seg_iter * sampling_rate
        /\ end_index = (seg_iter + 1) * sampling_rate - 1

\* C8: sampling never raises: each draw has lower bound <= upper bound, each
\* index read is within [0, len(raw_flows) - 1], and a drawn value at or past
\* the buffer length is replaced by the last valid index.
C8_IndexInRange ==
    /\ pc # "raised"
    /\ exc = "none"
    /\ (pc = "sampling" /\ seg_iter < segments) => start_index <= end_index
    /\ (pc = "sampling" /\ seg_iter > 0) =>
        /\ 0 <= random_flow
        /\ random_flow <= Len(raw_flows) - 1
        /\ drawn >= Len(raw_flows) => random_flow = Len(raw_flows) - 1
        /\ drawn < Len(raw_flows) => random_flow = drawn

\* C8 witness: a drawn value past the buffer end was replaced by the last
\* valid index, in a segment after the first.
C8_Witness ==
    /\ pc = "sampling"
    /\ seg_iter > 1
    /\ drawn > Len(raw_flows)
    /\ random_flow = Len(raw_flows) - 1

\* C11 as stated: every record written to the raw stream, client-originated
\* or server-originated, has 0 <= first <= last and last = timestamp.
C11_RawFirstLastTimestamp ==
    \A i \in RawRows :
        /\ 0 <= csv_raw_file[i].first
        /\ csv_raw_file[i].first <= csv_raw_file[i].last
        /\ csv_raw_file[i].last = csv_raw_file[i].timestamp

\* C11 as amended: every record written to the raw stream has
\* 0 <= first <= last <= timestamp; a client-originated record has
\* last = timestamp, a server-originated record has its last (the time index
\* of its pair) 15 to 20 ms before its timestamp.
C11_RawFirstLastUpToTimestamp ==
    \A i \in RawRows :
        /\ 0 <= csv_raw_file[i].first
        /\ csv_raw_file[i].first <= csv_raw_file[i].last
        /\ csv_raw_file[i].last <= csv_raw_file[i].timestamp
        /\ csv_raw_file[i].flow.side = "client" =>
               csv_raw_file[i].last = csv_raw_file[i].timestamp
        /\ csv_raw_file[i].flow.side = "server" =>
               csv_raw_file[i].timestamp - csv_raw_file[i].last
                   \in SERVER_LATENCY..(SERVER_LATENCY + MAX_JITTER - 1)

\* C11 witness: the raw stream holds a client record and a server record
\* whose flows started at time 0, the server record written 20 ms after its
\* last.
C11_Witness ==
    /\ \E i \in RawRows :
           /\ csv_raw_file[i].flow.side = "client"
           /\ csv_raw_file[i].first = 0
    /\ \E i \in RawRows :
           /\ csv_raw_file[i].flow.side = "server"
           /\ csv_raw_file[i].first = 0
           /\ csv_raw_file[i].timestamp - csv_raw_file[i].last = 20

\* C20: when a write to an output stream has failed with an OSError of the
\* no-space kind (ENOMEM or ENOSPC), generate_data does not return: it ends
\* with a raised OSError and gives no count pair.
C20_WriteFailureIsFatal ==
    write_errno # 0 =>
        /\ pc = "raised"
        /\ exc = "OSError"
        /\ ret = <<>>

(***************************************************************************)
(* Properties of generate_flow_record (specification SpecPair).            *)
(***************************************************************************)
\* C9: the server timestamps generate_flow_record(t) can return are exactly
\* t + 15 + j for j in 0..6, and the client timestamp t is below the server's.
C9_ServerTimestamps ==
    /\ pc = "pair_call" =>
        { generate_flow_record(time_index, d)[2].timestamp : d \in Draws }
            = { time_index + 15 + j : j \in 0..6 }
    /\ pc = "pair_return" =>
        /\ pair[1].timestamp = time_index
        /\ pair[1].timestamp < pair[2].timestamp

\* C12: of the 100 values the side draw can return, exactly 15 make the
\* client the heavy side (client dOctets = heavy size) and exactly 85 make
\* the server the heavy side, for sizes that tell the two sides apart.
C12_HeavySideCounts ==
    pc = "pair_call" =>
        \A d \in Draws : d.heavy_transfer_size # d.light_transfer_size =>
            LET made(s) == generate_flow_record(time_index,
                                                [d EXCEPT !.side = s])
                client_heavy == { s \in SideDraws :
                    made(s)[1].dOctets = d.heavy_transfer_size }
                server_heavy == { s \in SideDraws :
                    made(s)[2].dOctets = d.heavy_transfer_size }
            IN  /\ Cardinality(client_heavy) = 15
                /\ Cardinality(server_heavy) = 85

\* C10: the two records of a pair are the two directions of one conversation:
\* addresses, ports, ASNs, masks and interfaces are swapped, the internal side
\* carrying INTERNAL_ASN, INTERNAL_SUBNET and the internal interface index.
C10_CrossPopulated ==
    pc = "pair_return" =>
        LET client == pair[1]
            server == pair[2]
        IN  /\ client.srcaddr = server.dstaddr
            /\ client.dstaddr = server.srcaddr
            /\ client.srcport = server.dstport
            /\ client.dstport = server.srcport
            /\ client.src_as = server.dst_as
            /\ client.dst_as = server.src_as
            /\ client.dst_as = INTERNAL_ASN
            /\ client.src_mask = server.dst_mask
            /\ client.dst_mask = server.src_mask
            /\ client.dst_mask = INTERNAL_SUBNET
            /\ client.input = server.output
            /\ client.output = server.input
            /\ client.output = INTERNAL_IFINDEX.ifindex

\* C10 witness: a pair was returned whose two sides differ in address, port,
\* ASN and interface.
C10_Witness ==
    /\ pc = "pair_return"
    /\ pair[1].srcaddr # pair[1].dstaddr
    /\ pair[1].srcport # pair[1].dstport
    /\ pair[1].src_as # pair[1].dst_as
    /\ pair[1].input # pair[1].output
    /\ pair[2].srcport = 22

(***************************************************************************)
(* Properties of random_asns and make_route_table (specification SpecAsns). *)
(***************************************************************************)
\* the largest s in 8..24 with 2^s <= w, and 8 when there is none
LargestSubnet(w) ==
    IF \E s \in 8..24 : Pow2(s) <= w
    THEN CHOOSE s \in 8..24 :
             /\ Pow2(s) <= w
             /\ \A u \in 8..24 : Pow2(u) <= w => u <= s
    ELSE 8

\* C13: the subnet_bits of every route random_asns has made is the largest
\* s in 8..24 with 2^s <= range_end - range_start, and 8 when no s fits.
C13_SubnetBits ==
    \A asn \in DOMAIN new_table :
        new_table[asn].subnet_bits =
            LargestSubnet(new_table[asn].broadcast_address
                              - new_table[asn].network_address)

\* C14: when random_asns returns for a table of at least K rows, it has
\* picked K different rows, each is gone from asn_table, which is K rows
\* shorter, and the mapping returned holds exactly K routes, one for each
\* row picked.
C14_SelectsKRoutes ==
    (pc = "asns_return" /\ Len(asn_table_in) >= asns_to_select) =>
        LET picked == { selected_rows[n] : n \in DOMAIN selected_rows }
            left == { asn_table[n] : n \in DOMAIN asn_table }
        IN  /\ Len(selected_rows) = asns_to_select
            /\ Cardinality(picked) = asns_to_select
            /\ picked \cap left = {}
            /\ Len(asn_table) = Len(asn_table_in) - asns_to_select
            /\ Cardinality(DOMAIN new_table) = asns_to_select
            /\ \A row \in picked :
                   /\ row[3] \in DOMAIN new_table
                   /\ new_table[row[3]] = Route(row)

\* C15: a call with asns_to_select greater than len(asn_table) ends with
\* ValueError before any row is picked: asn_table is as the caller passed
\* it, no row has been picked and no route made.
C15_TooManyRequestedFails ==
    asns_to_select > Len(asn_table_in) =>
        /\ pc \in {"asns_call", "raised"}
        /\ pc = "raised" => exc = "ValueError"
        /\ asn_table = asn_table_in
        /\ selected_rows = <<>>
        /\ DOMAIN new_table = {}

\* C15 witness: a call asking for more rows than a non-empty table holds has
\* ended with the error.
C15_Witness ==
    /\ pc = "raised"
    /\ exc = "ValueError"
    /\ Len(asn_table_in) > 0
    /\ asns_to_select > Len(asn_table_in)

\* C16: after make_route_table every route carries the next hop and the
\* interface index of one single interface of the peering pool.
C16_NextHopAndIfindexOfOneInterface ==
    pc = "route_table_made" =>
        \A asn \in DOMAIN new_table :
            \E n \in DOMAIN peering_interfaces :
                /\ new_table[asn].next_hop = peering_interfaces[n].next_hop_i
                /\ new_table[asn].ifindex = peering_interfaces[n].ifindex

(***************************************************************************)
(* Properties of build_server_ip_table (specification SpecPool).           *)
(***************************************************************************)
\* the number a dotted quad stands for
IpValue(ip) == ip[1] * 16777216 + ip[2] * 65536 + ip[3] * 256 + ip[4]

\* C17: build_server_ip_table(a, b) returns the integers min(a, b),
\* min(a, b) + 1, ..., max(a, b) in increasing order, |a - b| + 1 of them,
\* whichever of the two is given first; for 10.10.10.10 and 10.10.10.100 it
\* has 91 addresses, from int(10.10.10.10) to int(10.10.10.100).
C17_ServerPoolIsTheRange ==
    pc = "pool_return" =>
        LET a == IpValue(from_ip)
            b == IpValue(to_ip)
            lo == IF a < b THEN a ELSE b
            hi == IF a < b THEN b ELSE a
        IN  /\ Len(server_ip_table) = hi - lo + 1
            /\ \A n \in DOMAIN server_ip_table :
                   server_ip_table[n] = lo + n - 1
            /\ {from_ip, to_ip} = {<<10, 10, 10, 10>>, <<10, 10, 10, 100>>} =>
                   /\ Len(server_ip_table) = 91
                   /\ server_ip_table[1] = 168430090
                   /\ server_ip_table[91] = 168430180

\* C17 witness: the call made with the two ends of SERVER_RANGE in inverted
\* order has returned 91 addresses.
C17_Witness ==
    /\ pc = "pool_return"
    /\ from_ip = <<10, 10, 10, 100>>
    /\ to_ip = <<10, 10, 10, 10>>
    /\ Len(server_ip_table) = 91

(***************************************************************************)
(* Properties of to_bytes (specification SpecPair).                        *)
(***************************************************************************)
\* C18: the byte string to_bytes returns for a record of the generator is
\* RECORD_LEN = 75 bytes long, the sum of the widths of its fields, the
\* system identifier taking the 32 bytes after the 6 of the timestamp.
C18_RecordLen ==
    pc = "bytes_return" =>
        /\ Len(record_bytes) = RECORD_LEN
        /\ Len(fromhex(record_arg.system_id)) = 32
        /\ SubSeq(record_bytes, 7, 38) = fromhex(record_arg.system_id)

\* another value for the field f of a record
OtherValue(flow_record, f) ==
    IF f = "system_id"
    THEN [i \in DOMAIN flow_record[f] |-> (flow_record[f][i] + 1) % 16]
    ELSE flow_record[f] + 1

\* C19: to_bytes loses no field: a record that differs from the encoded one
\* in any one of the 20 fields (first and last included) has a different
\* byte string, so decoding can give the field values back.
C19_EncodingTellsRecordsApart ==
    pc = "bytes_return" =>
        \A f \in DOMAIN record_arg :
            LET other == [record_arg EXCEPT ![f] = OtherValue(record_arg, f)]
            IN  ~to_bytes_overflows(other) => to_bytes(other) # record_bytes

(***************************************************************************)
(* Properties of the exits of generate_data (specification SpecFail).      *)
(***************************************************************************)
\* C21: on every exit path of generate_data (normal return, OSError at the
\* opening of either file, OSError while writing, OSError raised by the flush
\* or the close of the raw file), every output file that was opened has been
\* closed when control leaves generate_data.
C21_OpenedFilesClosedAtExit ==
    pc \in {"done", "raised"} =>
        /\ raw_file # "open"
        /\ sampled_file # "open"

\* C27: a failure raised during cleanup never replaces the failure that
\* caused the exit: when an error made control leave the try statement and
\* generate_data ends with an exception, the exception is that error.
C27_CleanupKeepsTheFailure ==
    (pc = "raised" /\ failure # "none") => exc = failure

(***************************************************************************)
(* Properties of get_asns (specification SpecClean).                       *)
(***************************************************************************)
Routable(row) == ~DropsRow(row)

\* C22: after the cleaning pass of get_asns no row of the returned table, at
\* any index, the first included, is unroutable (description "Not routed" or
\* "-Reserved AS-" or starting with "DNIC-", AS number above 65535 or 0,
\* range_end < range_start + 254), and every routable row of the input is
\* kept: the table is the input with its unroutable rows taken out.
C22_CleanedTableIsRoutable ==
    pc = "asns_return" =>
        /\ \A i \in DOMAIN ip2asn : Routable(ip2asn[i])
        /\ ip2asn = SelectSeq(tsv_file, Routable)

(***************************************************************************)
(* Properties of whole runs of generate_data (specifications SpecLive and  *)
(* Spec).                                                                  *)
(***************************************************************************)
\* the one-second windows whose records have been written
WindowsWritten == (time_index_ms - START_TIME_MS) \div MS_PER_SECOND

\* C23: for every flows_to_make >= 0 and flows_per_ms >= 1 the generation
\* loop terminates, and when generate_data returns every window whose records
\* were written, the last included, has had its sampling pass: as many
\* passes as windows, each of `segments` rows and one progress update, and
\* no record left in the one-second buffer.
C23_TerminatesAllWindowsSampled ==
    /\ <>(pc = "done")
    /\ [](pc = "done" =>
            /\ time_index_ms = START_TIME_MS + WindowsWritten * MS_PER_SECOND
            /\ total_sampled_flows_made = WindowsWritten * segments
            /\ progress = WindowsWritten * fps
            /\ raw_flows = <<>>)

\* C23 witness: a run has returned after more than one window, the last of
\* them sampled although only a part of it was asked for.
C23_Witness ==
    /\ pc = "done"
    /\ WindowsWritten > 1
    /\ flows_to_make < WindowsWritten * fps
    /\ total_sampled_flows_made = WindowsWritten * segments

\* the rows the tick of clock value t wrote to the raw stream
TickRows(t) == { i \in RawRows : csv_raw_file[i].at = t }

\* C24: when the sampling pass of a window starts, and all through it, the
\* one-second buffer holds exactly fps = flows_per_ms * 1000 records: each
\* tick of the window has contributed exactly flows_per_ms records.
C24_WindowHoldsFps ==
    /\ pc = "sampling" => Len(raw_flows) = fps
    /\ \A t \in START_TIME_MS..(time_index_ms - 1) :
           Cardinality(TickRows(t)) = flows_per_ms

\* C26: after each one-second window, the sum of the advances passed to
\* job_progress.update equals total_flows_made.
C26_ProgressIsFlowsMade ==
    pc \in {"while", "done"} => progress = total_flows_made

\* C30: when flows_to_make = T * 1000 * flows_per_ms, as the driver computes
\* it for T seconds, generate_data processes exactly T windows: on return
\* the clock is 60000 + 1000 * T and the sampled stream holds T * segments
\* records.
C30_ExactlyTWindows ==
    (pc = "done" /\ flows_to_make % fps = 0) =>
        /\ time_index_ms =
               START_TIME_MS + MS_PER_SECOND * (flows_to_make \div fps)
        /\ total_sampled_flows_made = (flows_to_make \div fps) * segments

\* C25: after each tick has finished, t being the clock value of the tick,
\* every key k of the future-flow buffer satisfies t < k <= t + 15 + 6: the
\* buffer never holds more than 21 different keys, and never a key at or
\* before the clock of the tick just done.
C25_BufferKeysAhead ==
    LET t == time_index_ms - 1
    IN  /\ \A k \in DOMAIN flow_buffer :
               t < k /\ k <= t + SERVER_LATENCY + MAX_JITTER
        /\ Cardinality(DOMAIN flow_buffer) <= SERVER_LATENCY + MAX_JITTER

\* C25 witness: after a tick the buffer holds several keys, the nearest one
\* millisecond ahead of the tick and the farthest at latency plus the
\* greatest jitter.
C25_Witness ==
    LET t == time_index_ms - 1
    IN  /\ time_index_ms > START_TIME_MS
        /\ Cardinality(DOMAIN flow_buffer) >= 5
        /\ t + 1 \in DOMAIN flow_buffer
        /\ t + SERVER_LATENCY + MAX_JITTER - 1 \in DOMAIN flow_buffer

\* a step of the segment loop that reads raw_flows and writes the record to
\* the sampled stream
SegmentDone == pc = "sampling" /\ seg_iter' = seg_iter + 1

\* C28: within one window no raw record is written to the sampled stream
\* twice: the indices two different segments read are different.  The
\* segments of a pass read at ascending indices, so it is enough to compare
\* each segment's index with the one read just before it.
C28_NoIndexReadTwice ==
    [][(SegmentDone /\ seg_iter > 0) => random_flow' # random_flow]_vars

\* the rows of the raw stream written before the window being sampled; every
\* record sampled in an earlier window is one of them
EarlierRows == 1..(Len(csv_raw_file) - Len(raw_flows))

\* C29: across a whole run the sampled stream has non-decreasing timestamps,
\* and each sampled record is a record of the one-second buffer of the window
\* being sampled: its timestamp is not below that of the record sampled
\* before it in the pass, nor below that of any record of an earlier window,
\* and it was written to the raw stream by a tick of this window.
C29_SampledStreamOrdered ==
    [][SegmentDone =>
        LET sampled == raw_flows[random_flow' + 1]
            row == csv_raw_file[Len(csv_raw_file) - Len(raw_flows)
                                + random_flow' + 1]
        IN  /\ seg_iter > 0 =>
                   Record(raw_flows[random_flow + 1]).timestamp
                       <= Record(sampled).timestamp
            /\ \A i \in EarlierRows :
                   csv_raw_file[i].timestamp <= Record(sampled).timestamp
            /\ row.flow = sampled
            /\ row.at >= time_index_ms - MS_PER_SECOND
            /\ row.at < time_index_ms]_vars

\* C29 witness: in a window after the first, a pass has sampled a record
\* with a later timestamp than the record sampled before it.
C29_Witness ==
    /\ pc = "sampling"
    /\ seg_iter > 1
    /\ time_index_ms > START_TIME_MS + MS_PER_SECOND
    /\ random_flow > 0
    /\ Record(raw_flows[random_flow + 1]).timestamp
           > Record(raw_flows[1]).timestamp
    /\ raw_flows[1].side = "server"
====
